---- MODULE Spec2Model ----
(***************************************************************************)
(* Model of the client-side data loader of the golf dashboard              *)
(* (class GolfDashboard in src/app.js): loadData, fetchWithRetry, delay,   *)
(* getCachedData, setCachedData, refreshData, handleFormSubmit and the     *)
(* online / offline / visibilitychange listeners,                          *)
(* and of its service worker (same file): the install and activate         *)
(* listeners, the fetch listener with its three predicates, the four       *)
(* strategy handlers, createOfflineResponse, syncData, updateCache and     *)
(* the caches they read and write.                                         *)
(*                                                                         *)
(* JavaScript runs every synchronous segment to completion, so one action  *)
(* is one segment between two suspension points (await fetch, await delay, *)
(* await response.json()).  The upstream resource is a JSON array of       *)
(* records (the interface of the data file), so response.json() of a       *)
(* success response yields a Collection.                                   *)
(***************************************************************************)
EXTENDS Integers, Sequences, FiniteSets, TLC

\* ---------------------------------------------------------------- bounds
MaxRefresh == 1     \* refreshData invocations in one behaviour
MaxAppend == 1      \* form submissions in one behaviour
MaxRTLen == 2       \* longest Collection written and read back
MaxEvents == 2      \* fetch events the service worker receives
MaxOverlap == 2     \* refreshData invocations when two may be in flight at once

\* ------------------------------------------------------ program constants
\* this.maxRetries (maxRetries_2: the loop giving up one attempt early)
maxRetries_2 == 2
maxRetries == 3

KEY == "golf-tournaments"
TSKEY == "golf-tournaments-timestamp"

\* -------------------------------------------------------------- data model
\* An optional value is a sequence of length 0 (null / no item) or 1.
None == << >>
Some(x) == << x >>

\* Records carry the fields that the loader can change: every other field
\* is a string copied verbatim.  score is a number, NaN after
\* parseInt of a non-numeric input, or null after a JSON round trip of NaN.
RecA == [name |-> "Ann", score |-> "71"]
RecB == [name |-> "Bob", score |-> "68"]
RecC == [name |-> "Cy", score |-> "70"]
RecN == [name |-> "Cy", score |-> "NaN"]

\* Bodies the upstream resource can have, and records the form can submit.
Payloads == { << >>, <<RecA, RecB>> }
FormRecords == { RecC, RecN }

\* JSON.stringify of a Collection: NaN is serialised as null.
JSONstringify(data) ==
    [k \in DOMAIN data |->
        [data[k] EXCEPT !.score = IF @ = "NaN" THEN "null" ELSE @]]

\* JSON.parse of a text produced by JSONstringify.
JSONparse(text) == text

\* Responses of fetch(): a settled response, or a rejection (transport error).
OkResponse(p) == [kind |-> "response", ok |-> TRUE, status |-> 200,
                  statusText |-> "OK", body |-> p]
BadResponse(s, t) == [kind |-> "response", ok |-> FALSE, status |-> s,
                      statusText |-> t, body |-> << >>]
Rejection == [kind |-> "reject", ok |-> FALSE, status |-> 0,
              statusText |-> "Failed to fetch", body |-> << >>]
FetchOutcomes ==
    { OkResponse(p) : p \in Payloads }
        \cup { BadResponse(503, "Service Unavailable"), Rejection }

\* The error an attempt throws inside fetchWithRetry.
HttpError(r) == [name |-> "Error",
                 message |-> <<"HTTP", r.status, r.statusText>>]
TransportError == [name |-> "TypeError", message |-> <<"fetch", 0, "Failed to fetch">>]
NoDataAvailable == [name |-> "Error", message |-> <<"No data available", 0, "">>]
NoError == [name |-> "", message |-> <<"", 0, "">>]

\* ------------------------------------------------------------------- state
\* Operations that run loadData: the constructor's init() and the calls of
\* refreshData() (a refresh may overlap init, and another refresh).  Two
\* refreshes are never in flight together where only "refresh" is used.
Ops == {"init", "refresh", "refresh2"}
RefreshOps == Ops \ {"init"}
OneAtATime == {"refresh"}
QuotaOutcomes == {"none", "first", "second"}

VARIABLES
    localStorage,      \* the Durable Store: item |-> None or Some(value)
    tournaments,       \* this.tournaments, the in-memory Collection
    connectionStatus,  \* this.connectionStatus
    listeners,         \* setupEventListeners() has run
    navOnline,         \* the browser's connectivity flag (drives the events)
    pc,                \* per operation: where its async function is suspended
    attempt,           \* per operation: loop variable i of fetchWithRetry
    timer,             \* per operation: milliseconds left of the pending delay()
    elapsed,           \* per operation: milliseconds of the pending delay() gone by
    waited,            \* per operation: elapsed when its latest fetch() was issued
    log,               \* per operation: the settled attempts, in order
    response,          \* per operation: the response whose body is being read
    h,                 \* per operation: what the operation observed and did
    nRefresh,          \* refreshData invocations so far
    nAppend,           \* form submissions so far
    nSuccess,          \* form submissions that reached showSuccessMessage
    storeRejected,     \* the store has rejected a setItem of setCachedData
    rt,                \* a setCachedData(c) / getCachedData() pair on its own
    ev,                \* a fetch event on its own, and the handler it was given
    worker,            \* the service worker's life cycle
    caches,            \* CacheStorage: cache name |-> URL |-> None or Some(response)
    sw,                \* per fetch event being answered: its handler's progress
    puts,              \* cache.put calls that were issued and not awaited
    nEvents,           \* fetch events so far
    lastOk,            \* cache name |-> URL |-> the latest success response of the network
    oldCaches,         \* names of the caches an earlier version of the worker left
    bg                 \* the syncData() or updateCache() call under way

vars == << localStorage, tournaments, connectionStatus, listeners, navOnline,
           pc, attempt, timer, elapsed, waited, log, response, h,
           nRefresh, nAppend, nSuccess, storeRejected, rt, ev, worker, caches, sw, puts, nEvents,
           lastOk, oldCaches, bg >>

\* What the loader's operations leave alone.
loaderVars == << localStorage, tournaments, connectionStatus, listeners,
                 navOnline, pc, attempt, timer, elapsed, waited, log, response,
                 h, nRefresh, nAppend, nSuccess, storeRejected >>
swVars == << worker, caches, sw, puts, nEvents, lastOk, oldCaches, bg >>
others == << rt, ev, swVars >>
rest == << storeRejected, others >>

InFlight(op) == pc[op] \in {"fetching", "backoff", "parsing"}

H0 == [ startStore |-> None,      \* dataset item when loadData began
        used |-> "none",          \* "cache", "network", "fallback", "error"
        value |-> << >>,          \* the Collection loadData installed
        returned |-> None,        \* the response fetchWithRetry returned
        fetchErr |-> NoError,     \* the error fetchWithRetry threw
        error |-> NoError,        \* the error loadData threw
        wrote |-> "no",           \* loadData's cache write: "no", "ok", "rejected"
        writeRejected |-> FALSE,  \* the store rejected loadData's setItem
        loadStatus |-> "online",  \* status when loadData completed
        endStatus |-> "online",   \* status when the operation completed
        endStore |-> None,        \* dataset item when the operation completed
        rejected |-> FALSE,       \* the operation's promise rejected
        otherWrote |-> FALSE ]    \* another operation wrote the dataset item meanwhile

\* ----------------------------------------------------- the loader's pieces
\* getCachedData(): null, or the parsed dataset item.
getCachedData(ls) ==
    IF ls[KEY] = None THEN None ELSE Some(JSONparse(ls[KEY][1]))

\* setCachedData(data): two setItem calls inside one try; quota names the
\* call that the store rejects, if any.  The exception is swallowed.
setCachedData_drop(ls, data, quota) == ls
setCachedData(ls, data, quota) ==
    IF quota = "first" THEN ls
    ELSE IF quota = "second"
         THEN [ls EXCEPT ![KEY] = Some(JSONstringify(data))]
         ELSE [ls EXCEPT ![KEY] = Some(JSONstringify(data)),
                         ![TSKEY] = Some("Date.now()")]

\* Does setCachedData throw when the store rejects a setItem?  No: the
\* catch block logs a warning and returns.
setCachedDataThrows_uncaught(quota) == quota = "first"
setCachedDataThrows(quota) == FALSE

\* The argument of delay() after failed attempt i: Math.pow(2, i) * 1000.
BackoffMs_linear(i) == i * 1000
BackoffMs(i) == (2 ^ i) * 1000

\* The error a failed attempt throws (a non-ok response or a rejection).
AttemptError(out) ==
    IF out.kind = "reject" THEN TransportError ELSE HttpError(out)

\* An attempt fails unless fetch() settled with an ok response.
AttemptFailed_nook(out) == out.kind = "reject"
AttemptFailed(out) == ~(out.kind = "response" /\ out.ok)

\* After a failed attempt i: is the error rethrown (the last attempt)?
IsLastAttempt_early(i) == i = maxRetries - 2
IsLastAttempt(i) == i = maxRetries - 1

\* loadData's first branch: the cache-first early return.
CacheFirst_never(cached) == FALSE
CacheFirst(cached) == cached # None

\* The status an operation leaves once its loadData has settled:
\* init() leaves what loadData set; refreshData() sets 'online' after a
\* loadData that returned and 'offline' after one that threw.
EndStatus_keep(op, loadOk, st) == st
EndStatus(op, loadOk, st) ==
    IF op = "init" THEN st
    ELSE IF loadOk THEN "online" ELSE "offline"

\* Does the promise of init() / refreshData() reject when loadData threw?
\* No: either wraps its whole body in try / catch, and the catch block
\* reports the error and returns.
OperationRejects_uncaught(op, loadOk) == ~loadOk
OperationRejects(op, loadOk) == FALSE

\* The operation's loadData settles: the rest of init()/refreshData() runs
\* in the same turn.
Settle(op, loadOk, used, coll, ls, st, wrote, upd) ==
    /\ tournaments' = coll
    /\ localStorage' = ls
    /\ connectionStatus' = EndStatus(op, loadOk, st)
    /\ listeners' = (listeners \/ (op = "init" /\ loadOk))
    /\ pc' = [pc EXCEPT ![op] = "done"]
    /\ h' = [p \in Ops |->
               IF p = op
               THEN [upd EXCEPT !.used = used,
                                !.value = IF loadOk THEN coll ELSE << >>,
                                !.error = IF loadOk THEN NoError ELSE NoDataAvailable,
                                !.wrote = wrote,
                                !.loadStatus = st,
                                !.endStatus = EndStatus(op, loadOk, st),
                                !.rejected = OperationRejects(op, loadOk),
                                !.endStore = ls[KEY]]
               ELSE IF InFlight(p) /\ wrote = "ok"
                    THEN [h[p] EXCEPT !.otherWrote = TRUE]
                    ELSE h[p]]

\* loadData's catch block, run when the try block threw err.
LoadCatch_nofallback(op, upd) ==
    Settle(op, FALSE, "error", tournaments, localStorage,
           connectionStatus, "no", upd)
LoadCatch(op, upd) ==
    LET fallbackData == getCachedData(localStorage) IN
    IF fallbackData # None
    THEN Settle(op, TRUE, "fallback", fallbackData[1], localStorage,
                "offline", "no", upd)
    ELSE Settle(op, FALSE, "error", tournaments, localStorage,
                connectionStatus, "no", upd)

\* loadData() from its first line up to its first suspension point; st is
\* the status the caller set just before.
LoadBegin(op, st) ==
    LET cachedData == getCachedData(localStorage)
        h0 == [H0 EXCEPT !.startStore = localStorage[KEY]]
    IN
    /\ attempt' = [attempt EXCEPT ![op] = 0]
    /\ log' = [log EXCEPT ![op] = << >>]
    /\ response' = [response EXCEPT ![op] = None]
    /\ timer' = [timer EXCEPT ![op] = 0]
    /\ elapsed' = [elapsed EXCEPT ![op] = 0]
    /\ waited' = [waited EXCEPT ![op] = 0]
    /\ IF CacheFirst(cachedData)
       THEN Settle(op, TRUE, "cache", cachedData[1], localStorage, st, "no", h0)
       ELSE \* fetchWithRetry: i = 0, fetch() issued
            /\ pc' = [pc EXCEPT ![op] = "fetching"]
            /\ h' = [h EXCEPT ![op] = h0]
            /\ connectionStatus' = st
            /\ UNCHANGED << tournaments, localStorage, listeners >>

\* ----------------------------------------------------------------- actions
\* ------------------------------------------------- the service worker
\* Strings the service worker searches are sequences of characters, so
\* that includes() and endsWith() are computed as String.prototype does.
Includes(str, sub) ==
    \E i \in 0..(Len(str) - Len(sub)) : SubSeq(str, i + 1, i + Len(sub)) = sub
EndsWith(str, sub) ==
    /\ Len(sub) <= Len(str)
    /\ SubSeq(str, Len(str) - Len(sub) + 1, Len(str)) = sub

\* The substrings of the three predicates and of createOfflineResponse.
SUB_Data == <<"/", "d", "a", "t", "a", "/">>
SUB_Json == <<".", "j", "s", "o", "n">>
SUB_Css == <<".", "c", "s", "s">>
SUB_Js == <<".", "j", "s">>
SUB_Png == <<".", "p", "n", "g">>
SUB_Jpg == <<".", "j", "p", "g">>
SUB_Jpeg == <<".", "j", "p", "e", "g">>
SUB_Gif == <<".", "g", "i", "f">>
SUB_Svg == <<".", "s", "v", "g">>
SUB_Ico == <<".", "i", "c", "o">>
SUB_Cdn == <<"c", "d", "n", ".", "j", "s", "d", "e", "l", "i", "v", "r", ".", "n", "e", "t">>
SUB_Html == <<".", "h", "t", "m", "l">>
SUB_TextHtml == <<"t", "e", "x", "t", "/", "h", "t", "m", "l">>
SUB_AppJson == <<"a", "p", "p", "l", "i", "c", "a", "t", "i", "o", "n", "/", "j", "s", "o", "n">>

\* Request URLs.  The origin is written only where a predicate looks at it
\* (the CDN host); the application's own origin contains none of the
\* substrings above.  A URL and a header value are held as a string, and
\* searched through their characters (Chars).
URL_DataJson == "/data/c.json"
URL_DataOther == "/data/x"
URL_RootJson == "/c.json"
URL_JsonQuery == "/c.json?v"
URL_AppJs == "/app.js"
URL_Css == "/s.css"
URL_Index == "/index.html"
URL_Root == "/"
URL_Api == "/api"
URL_Cdn == "cdn.jsdelivr.net/c"
RouteUrls == { URL_DataJson, URL_DataOther, URL_RootJson, URL_JsonQuery,
               URL_AppJs, URL_Css, URL_Index, URL_Root,
               URL_Api, URL_Cdn }

\* Values of the Accept header; a request may carry none.
ACCEPT_Any == "*/*"
ACCEPT_Html == "text/html"
ACCEPT_Json == "application/json"
ACCEPT_HtmlJson == "text/html,application/json"

\* The characters of each string above.
Chars ==
    (URL_DataJson :> <<"/", "d", "a", "t", "a", "/", "c", ".", "j", "s", "o", "n">>) @@
    (URL_DataOther :> <<"/", "d", "a", "t", "a", "/", "x">>) @@
    (URL_RootJson :> <<"/", "c", ".", "j", "s", "o", "n">>) @@
    (URL_JsonQuery :> <<"/", "c", ".", "j", "s", "o", "n", "?", "v">>) @@
    (URL_AppJs :> <<"/", "a", "p", "p", ".", "j", "s">>) @@
    (URL_Css :> <<"/", "s", ".", "c", "s", "s">>) @@
    (URL_Index :> <<"/", "i", "n", "d", "e", "x", ".", "h", "t", "m", "l">>) @@
    (URL_Root :> <<"/">>) @@
    (URL_Api :> <<"/", "a", "p", "i">>) @@
    (URL_Cdn :> <<"c", "d", "n", ".", "j", "s", "d", "e", "l", "i", "v", "r", ".", "n", "e", "t", "/", "c">>) @@
    (ACCEPT_Any :> <<"*", "/", "*">>) @@
    (ACCEPT_Html :> <<"t", "e", "x", "t", "/", "h", "t", "m", "l">>) @@
    (ACCEPT_Json :> <<"a", "p", "p", "l", "i", "c", "a", "t", "i", "o", "n", "/", "j", "s", "o", "n">>) @@
    (ACCEPT_HtmlJson :> <<"t", "e", "x", "t", "/", "h", "t", "m", "l", ",", "a", "p", "p", "l", "i", "c", "a", "t", "i", "o", "n", "/", "j", "s", "o", "n">>)

AcceptValues == { None, Some(ACCEPT_Any), Some(ACCEPT_Html), Some(ACCEPT_Json),
                  Some(ACCEPT_HtmlJson) }

Request(m, u, md, a) == [method |-> m, url |-> u, mode |-> md, accept |-> a]

\* request.headers.get('accept') && request.headers.get('accept').includes(sub)
AcceptIncludes(request, sub) ==
    request.accept # None /\ Includes(Chars[request.accept[1]], sub)

\* Requests a fetch event can carry.  A request of mode 'navigate' is made
\* by the browser only, which sends an Accept header starting with text/html.
RouteRequests ==
    { r \in { Request(m, u, md, a) : m \in {"GET", "POST"}, u \in RouteUrls,
                                     md \in {"navigate", "cors"}, a \in AcceptValues } :
        r.mode = "navigate" => AcceptIncludes(r, SUB_TextHtml) }

isDataRequest(request) ==
    Includes(Chars[request.url], SUB_Data) \/ EndsWith(Chars[request.url], SUB_Json)

isStaticResource(request) ==
    \/ Includes(Chars[request.url], SUB_Css)
    \/ Includes(Chars[request.url], SUB_Js)
    \/ Includes(Chars[request.url], SUB_Png)
    \/ Includes(Chars[request.url], SUB_Jpg)
    \/ Includes(Chars[request.url], SUB_Jpeg)
    \/ Includes(Chars[request.url], SUB_Gif)
    \/ Includes(Chars[request.url], SUB_Svg)
    \/ Includes(Chars[request.url], SUB_Ico)
    \/ Includes(Chars[request.url], SUB_Cdn)

isNavigationRequest_modeonly(request) == request.mode = "navigate"
isNavigationRequest(request) ==
    \/ request.mode = "navigate"
    \/ EndsWith(Chars[request.url], SUB_Html)
    \/ AcceptIncludes(request, SUB_TextHtml)

\* The fetch listener: the handler whose promise is passed to
\* event.respondWith, or "none" when respondWith is not called.
FetchListener_staticfirst(request) ==
    IF request.method = "GET"
    THEN IF isStaticResource(request) THEN "handleStaticRequest"
         ELSE IF isDataRequest(request) THEN "handleDataRequest"
         ELSE IF isNavigationRequest(request) THEN "handleNavigationRequest"
         ELSE "handleGenericRequest"
    ELSE "none"
FetchListener(request) ==
    IF request.method = "GET"
    THEN IF isDataRequest(request) THEN "handleDataRequest"
         ELSE IF isStaticResource(request) THEN "handleStaticRequest"
         ELSE IF isNavigationRequest(request) THEN "handleNavigationRequest"
         ELSE "handleGenericRequest"
    ELSE "none"

\* No fetch event under way.
EV0 == [stage |-> "idle", request |-> Request("GET", URL_Root, "cors", None),
        handler |-> "none"]

CACHE_NAME == "golf-dashboard-v1.2"
STATIC_CACHE == "golf-static-v1.2"
DATA_CACHE == "golf-data-v1.2"
CacheNames == { CACHE_NAME, STATIC_CACHE, DATA_CACHE }

\* caches.match() looks through the caches in the order of their creation:
\* install opens STATIC_CACHE, then DATA_CACHE; handleGenericRequest is the
\* only one to open CACHE_NAME.
MatchOrder == << STATIC_CACHE, DATA_CACHE, CACHE_NAME >>

\* URLs the handlers are exercised with, and those of STATIC_FILES among
\* them ('/data/c.json' stands for '/data/championships.json').
SWUrls == { URL_DataJson, URL_DataOther, URL_AppJs, URL_Index, URL_Api }
STATIC_FILES == { URL_Index, URL_AppJs, URL_DataJson }

\* A response body, as its consumer parses it: a JSON array of records, a
\* JSON object with an error and a data member, an HTML page or plain text.
Body(shape, records, text) == [shape |-> shape, records |-> records, text |-> text]

SWResponse(st, stText, ct, body) ==
    [ok |-> (st >= 200 /\ st <= 299), status |-> st, statusText |-> stText,
     contentType |-> ct, body |-> body]

\* What the origin server holds at a URL, in version v of the site: the
\* dataset under the data path, a document elsewhere.  Version 0 is the
\* one install pre-caches.
Dataset(v) == IF v = 0 THEN <<RecB>> ELSE IF v = 1 THEN <<RecA, RecB>> ELSE << >>
Document(v) == IF v = 0 THEN "v0" ELSE IF v = 1 THEN "v1" ELSE "v2"
NetResponse(url, v) ==
    IF Includes(Chars[url], SUB_Data)
    THEN SWResponse(200, "OK", "application/json", Body("array", Dataset(v), ""))
    ELSE SWResponse(200, "OK", "text/html", Body("html", << >>, Document(v)))
NetError == SWResponse(503, "Service Unavailable", "text/plain", Body("text", << >>, "upstream"))

\* How a fetch() of the service worker settles: None is a rejection (the
\* transport failed), Some(r) a response.
SWOutcomes(url) == { None, Some(NetError), Some(NetResponse(url, 1)), Some(NetResponse(url, 2)) }

\* createOfflineResponse(request): None when it throws, which it does for
\* a request without an Accept header (headers.get returns null).
OfflinePage == SWResponse(200, "", "text/html", Body("html", << >>, "offline page, Retry button"))
OfflineJson == SWResponse(200, "", "application/json", Body("object", << >>, "Offline"))
OfflineGeneric == SWResponse(503, "Service Unavailable", "text/plain", Body("text", << >>, "Offline"))
createOfflineResponse(request) ==
    IF request.accept = None THEN None
    ELSE IF Includes(Chars[request.accept[1]], SUB_TextHtml) THEN Some(OfflinePage)
    ELSE IF Includes(Chars[request.accept[1]], SUB_AppJson) THEN Some(OfflineJson)
    ELSE Some(OfflineGeneric)

\* caches.match(url): the entry of the first cache, in creation order, that
\* holds the URL.
RECURSIVE MatchFrom(_, _, _)
MatchFrom(cs, url, i) ==
    IF i > Len(MatchOrder) THEN None
    ELSE IF cs[MatchOrder[i]][url] # None THEN cs[MatchOrder[i]][url]
    ELSE MatchFrom(cs, url, i + 1)
CachesMatch_miss(cs, url) == None
CachesMatch(cs, url) == MatchFrom(cs, url, 1)

\* The cache each strategy writes to.
CacheOf_generic(handler) == CACHE_NAME
CacheOf(handler) ==
    IF handler = "handleDataRequest" THEN DATA_CACHE
    ELSE IF handler = "handleGenericRequest" THEN CACHE_NAME
    ELSE STATIC_CACHE

\* Is the catch block of the strategy entered when fetch() settled with a
\* response that is not ok?  handleStaticRequest and handleGenericRequest
\* return such a response as it is.
ThrowsOnNotOk(handler) ==
    handler \in { "handleDataRequest", "handleNavigationRequest" }

\* if (networkResponse.ok), if (response.ok): the test that guards every
\* cache.put of the handlers and of syncData.
ResponseOk_any(r) == TRUE
ResponseOk(r) == r.ok

\* Does the data strategy call fetch() again after a failed attempt?  It
\* holds a single `await fetch(request)` and no loop.
RetryAfterFailure_bounded(fetched) == fetched < maxRetries
RetryAfterFailure(fetched) == FALSE

\* The requests whose fetch events the handlers are exercised with.
SWRequests ==
    { Request("GET", URL_DataJson, "cors", Some(ACCEPT_Any)),
      Request("GET", URL_DataOther, "cors", Some(ACCEPT_Json)),
      Request("GET", URL_AppJs, "no-cors", Some(ACCEPT_Any)),
      Request("GET", URL_Index, "navigate", Some(ACCEPT_Html)),
      Request("GET", URL_Index, "cors", None),
      Request("GET", URL_Api, "navigate", Some(ACCEPT_HtmlJson)),
      Request("GET", URL_Api, "cors", Some(ACCEPT_Any)),
      Request("GET", URL_Api, "cors", None),
      Request("POST", URL_Api, "cors", Some(ACCEPT_Json)) }

\* Fetch events answered at the same time.
Slots == {1, 2}

SW0 == [ pc |-> "idle",           \* "fetch", "open", "match", "matchIndex", "done"
         request |-> Request("GET", URL_Api, "cors", None),
         handler |-> "none",
         fetched |-> 0,           \* fetch() calls of the handler
         net |-> << >>,           \* how they settled, in order
         openFailed |-> FALSE,    \* caches.open rejected
         putsIssued |-> 0,        \* cache.put calls of the handler
         matched |-> FALSE,       \* the catch block found a cached entry
         result |-> None,         \* the response the handler resolved with
         source |-> "none",       \* "network", "cache", "shell", "offline", "browser"
         rejected |-> FALSE ]     \* the handler's promise rejected

EmptyCaches == [cn \in CacheNames |-> [u \in SWUrls |-> None]]

\* No syncData() and no updateCache() under way.
BG0 == [ pc |-> "idle",           \* "syncFetch", "syncOpen", "syncPut",
                                  \* "updateOpen", "updateAddAll", "done"
         task |-> "none",         \* "syncData", "updateCache"
         response |-> None,       \* the response syncData fetched
         wrote |-> FALSE ]        \* the task wrote to a cache

\* Caches of the version the worker replaces.
OldCacheNames == { "golf-static-v1.1", "golf-data-v1.1" }

\* The test of the activate listener: is the cache none of the three
\* current ones?
Stale_none(cacheName) == FALSE
Stale(cacheName) ==
    /\ cacheName # STATIC_CACHE
    /\ cacheName # DATA_CACHE
    /\ cacheName # CACHE_NAME

\* The service worker script has been evaluated and nothing else.
SWIdle ==
    /\ worker = "parsed"
    /\ caches = EmptyCaches
    /\ sw = [s \in Slots |-> SW0]
    /\ puts = {}
    /\ nEvents = 0
    /\ lastOk = EmptyCaches
    /\ oldCaches = OldCacheNames
    /\ bg = BG0

\* No write / read pair under way.
RT0 == [stage |-> "idle", c |-> << >>, ls |-> [k \in {KEY, TSKEY} |-> None],
        quota |-> "none", out |-> None]

LoaderInit ==
    /\ localStorage \in
         { [k \in {KEY, TSKEY} |-> None] }
           \cup { [k \in {KEY, TSKEY} |->
                     IF k = KEY THEN Some(JSONstringify(c))
                                ELSE Some("Date.now()")]
                  : c \in { <<RecB>> } }
    /\ tournaments = << >>
    /\ connectionStatus = "online"
    /\ listeners = FALSE
    /\ navOnline \in BOOLEAN
    /\ pc = [op \in Ops |-> IF op = "init" THEN "start" ELSE "idle"]
    /\ attempt = [op \in Ops |-> 0]
    /\ timer = [op \in Ops |-> 0]
    /\ elapsed = [op \in Ops |-> 0]
    /\ waited = [op \in Ops |-> 0]
    /\ log = [op \in Ops |-> << >>]
    /\ response = [op \in Ops |-> None]
    /\ h = [op \in Ops |-> H0]
    /\ nRefresh = 0
    /\ nAppend = 0
    /\ nSuccess = 0
    /\ storeRejected = FALSE

Init ==
    /\ LoaderInit
    /\ rt = RT0
    /\ ev = EV0
    /\ SWIdle

\* new GolfDashboard(): init() shows 'online' and calls loadData().
InitStart ==
    /\ pc["init"] = "start"
    /\ LoadBegin("init", "online")
    /\ UNCHANGED << navOnline, nRefresh, nAppend, nSuccess >>
    /\ UNCHANGED rest

\* refreshData(): shows 'reconnecting' and calls loadData().  max caps the
\* invocations of one behaviour; "refresh2" runs a call made while
\* "refresh" is in flight.
RefreshBegin(op, max) ==
    /\ op \in RefreshOps
    /\ pc[op] \in {"idle", "done"}
    /\ op = "refresh2" => InFlight("refresh")
    /\ nRefresh < max
    /\ nRefresh' = nRefresh + 1
    /\ LoadBegin(op, "reconnecting")

\* visibilitychange to visible: refreshData() if window.dashboard is set.
VisibilityChange(op, max) ==
    /\ pc["init"] # "start"
    /\ RefreshBegin(op, max)
    /\ UNCHANGED << navOnline, nAppend, nSuccess >>
    /\ UNCHANGED rest

\* window 'online' listener: shows 'online', then refreshData().
OnlineEvent(op, max) ==
    /\ listeners
    /\ ~navOnline
    /\ navOnline' = TRUE
    /\ RefreshBegin(op, max)
    /\ UNCHANGED << nAppend, nSuccess >>
    /\ UNCHANGED rest

\* window 'offline' listener.
OfflineEvent ==
    /\ listeners
    /\ navOnline
    /\ navOnline' = FALSE
    /\ connectionStatus' = "offline"
    /\ UNCHANGED << localStorage, tournaments, listeners, pc, attempt,
                    timer, elapsed, waited, log, response, h, nRefresh,
                    nAppend, nSuccess >>
    /\ UNCHANGED rest

\* The pending fetch() of op settles with out; fetchWithRetry and, when it
\* throws, loadData's catch block run on.
FetchSettles(op, out) ==
    /\ pc[op] = "fetching"
    /\ log' = [log EXCEPT ![op] = Append(@, out)]
    /\ IF ~AttemptFailed(out)
       THEN \* return response; loadData awaits response.json()
            /\ pc' = [pc EXCEPT ![op] = "parsing"]
            /\ response' = [response EXCEPT ![op] = Some(out)]
            /\ h' = [h EXCEPT ![op].returned = Some(out)]
            /\ UNCHANGED << localStorage, tournaments, connectionStatus,
                            listeners, timer, elapsed >>
       ELSE IF IsLastAttempt(attempt[op])
       THEN \* throw error: loadData's catch block
            /\ LoadCatch(op, [h[op] EXCEPT !.fetchErr = AttemptError(out)])
            /\ UNCHANGED << response, timer, elapsed >>
       ELSE \* await this.delay(Math.pow(2, i) * 1000)
            /\ pc' = [pc EXCEPT ![op] = "backoff"]
            /\ timer' = [timer EXCEPT ![op] = BackoffMs(attempt[op])]
            /\ elapsed' = [elapsed EXCEPT ![op] = 0]
            /\ UNCHANGED << localStorage, tournaments, connectionStatus,
                            listeners, response, h >>
    /\ UNCHANGED << navOnline, attempt, waited, nRefresh, nAppend, nSuccess >>
    /\ UNCHANGED rest

\* The delay() timer of op fires: i++ and, if i < maxRetries, the next fetch().
BackoffElapsed(op) ==
    /\ pc[op] = "backoff"
    /\ timer[op] = 0
    /\ attempt' = [attempt EXCEPT ![op] = @ + 1]
    /\ IF attempt[op] + 1 < maxRetries
       THEN /\ pc' = [pc EXCEPT ![op] = "fetching"]
            /\ UNCHANGED << localStorage, tournaments, connectionStatus,
                            listeners, h >>
       ELSE \* the loop ends without a response: response.json() throws
            LoadCatch(op, h[op])
    /\ waited' = [waited EXCEPT ![op] = elapsed[op]]
    /\ elapsed' = [elapsed EXCEPT ![op] = 0]
    /\ UNCHANGED << navOnline, timer, log, response, nRefresh, nAppend,
                    nSuccess >>
    /\ UNCHANGED rest

\* response.json() resolves: the Collection is replaced and written through.
BodyParsed(op, quota) ==
    /\ pc[op] = "parsing"
    /\ LET coll == response[op][1].body
           upd == [h[op] EXCEPT !.writeRejected = (quota = "first")]
       IN
       IF setCachedDataThrows(quota)
       THEN \* the exception would reach loadData's catch block
            LoadCatch(op, upd)
       ELSE Settle(op, TRUE, "network", coll,
                   setCachedData(localStorage, coll, quota),
                   connectionStatus,
                   IF quota = "first" THEN "rejected" ELSE "ok", upd)
    /\ response' = [response EXCEPT ![op] = None]
    /\ storeRejected' = (storeRejected \/ quota # "none")
    /\ UNCHANGED << navOnline, attempt, timer, elapsed, waited, log,
                    nRefresh, nAppend, nSuccess >>
    /\ UNCHANGED others

\* handleFormSubmit: push the new record, write the Collection through,
\* then render, close the modal and show the success message.
FormSubmit(rec, quota) ==
    /\ listeners
    /\ nAppend < MaxAppend
    /\ nAppend' = nAppend + 1
    /\ nSuccess' = IF setCachedDataThrows(quota) THEN nSuccess ELSE nSuccess + 1
    /\ tournaments' = Append(tournaments, rec)
    /\ localStorage' = setCachedData(localStorage, tournaments', quota)
    /\ h' = [p \in Ops |->
               IF InFlight(p) /\ quota # "first"
               THEN [h[p] EXCEPT !.otherWrote = TRUE] ELSE h[p]]
    /\ storeRejected' = (storeRejected \/ quota # "none")
    /\ UNCHANGED << connectionStatus, listeners, navOnline, pc, attempt,
                    timer, elapsed, waited, log, response, nRefresh >>
    /\ UNCHANGED others

\* One second passes while some delay() is pending.  A timer never fires
\* early; how late it fires is not modelled, so elapsed counts the time
\* since the failure up to the length of the delay.
Waiting(op) == pc[op] = "backoff" /\ timer[op] > 0
Tick ==
    /\ \E op \in Ops : Waiting(op)
    /\ timer' = [op \in Ops |->
                   IF Waiting(op) THEN timer[op] - 1000 ELSE timer[op]]
    /\ elapsed' = [op \in Ops |->
                     IF Waiting(op) THEN elapsed[op] + 1000 ELSE elapsed[op]]
    /\ UNCHANGED << localStorage, tournaments, connectionStatus, listeners,
                    navOnline, pc, attempt, waited, log, response, h,
                    nRefresh, nAppend, nSuccess >>
    /\ UNCHANGED rest

Next ==
    \/ InitStart
    \/ \E op \in OneAtATime : VisibilityChange(op, MaxRefresh)
    \/ \E op \in OneAtATime : OnlineEvent(op, MaxRefresh)
    \/ OfflineEvent
    \/ \E op \in Ops, out \in FetchOutcomes : FetchSettles(op, out)
    \/ \E op \in Ops : BackoffElapsed(op)
    \/ \E op \in Ops, quota \in QuotaOutcomes : BodyParsed(op, quota)
    \/ \E rec \in FormRecords, quota \in QuotaOutcomes : FormSubmit(rec, quota)
    \/ Tick

Spec == Init /\ [][Next]_vars

\* The page opened while the browser is online: from then on the browser
\* is offline exactly between an 'offline' event and the next 'online' event.
InitOnline == Init /\ navOnline
SpecOnline == InitOnline /\ [][Next]_vars

\* One fetchWithRetry call on its own: the constructor's load with no other
\* operation, against every sequence of network outcomes and timer delays.
RetryOutcomes == FetchOutcomes \cup { BadResponse(404, "Not Found") }
NextRetry ==
    \/ InitStart
    \/ \E out \in RetryOutcomes : FetchSettles("init", out)
    \/ BackoffElapsed("init")
    \/ \E quota \in QuotaOutcomes : BodyParsed("init", quota)
    \/ Tick

SpecRetry == Init /\ [][NextRetry]_vars

\* Overlapping refreshes: a visibility change or an 'online' event while a
\* refreshData() is in flight starts another one.  The network gives the
\* dataset or fails, and no record is submitted.
OverlapOutcomes == { OkResponse(<<RecA, RecB>>), Rejection }
NextOverlap ==
    \/ InitStart
    \/ \E op \in RefreshOps : VisibilityChange(op, MaxOverlap)
    \/ \E op \in RefreshOps : OnlineEvent(op, MaxOverlap)
    \/ OfflineEvent
    \/ \E op \in Ops, out \in OverlapOutcomes : FetchSettles(op, out)
    \/ \E op \in Ops : BackoffElapsed(op)
    \/ \E op \in Ops, quota \in {"none", "first"} : BodyParsed(op, quota)
    \/ Tick

SpecOverlap == Init /\ [][NextOverlap]_vars

\* ------------------------------------------------- the store round trip
\* setCachedData(c) followed by getCachedData(), for every Collection c of
\* at most MaxRTLen records, on an empty and on a populated store.
AllRecords == {RecA, RecB, RecC, RecN}
Collections == UNION { [1..n -> AllRecords] : n \in 0..MaxRTLen }

InitRoundTrip ==
    /\ LoaderInit
    /\ localStorage[KEY] = None
    /\ navOnline
    /\ \E c \in Collections, old \in {None, Some(JSONstringify(<<RecB>>))} :
         rt = [RT0 EXCEPT !.stage = "input", !.c = c, !.ls[KEY] = old]
    /\ ev = EV0
    /\ SWIdle

RTWrite(quota) ==
    /\ rt.stage = "input"
    /\ rt' = [rt EXCEPT !.stage = "written", !.quota = quota,
                        !.ls = setCachedData(rt.ls, rt.c, quota)]
    /\ UNCHANGED << loaderVars, ev, swVars >>

RTRead ==
    /\ rt.stage = "written"
    /\ rt' = [rt EXCEPT !.stage = "read", !.out = getCachedData(rt.ls)]
    /\ UNCHANGED << loaderVars, ev, swVars >>

NextRoundTrip ==
    \/ \E quota \in QuotaOutcomes : RTWrite(quota)
    \/ RTRead

SpecRoundTrip == InitRoundTrip /\ [][NextRoundTrip]_vars

TypeOK ==
    /\ connectionStatus \in {"online", "offline", "reconnecting"}
    /\ \A op \in Ops : pc[op] \in {"start", "idle", "fetching", "backoff", "parsing", "done"}
    /\ \A op \in Ops : Len(log[op]) <= maxRetries

\* ------------------------------------------------------------ properties
\* Helpers of the properties, stated on the recorded facts only.
Done(op) == pc[op] = "done"
Issued(op) == Len(log[op]) + (IF pc[op] = "fetching" THEN 1 ELSE 0)
AllFailedUpTo(op, k) == \A j \in 1..k : ~log[op][j].ok
NoneSucceeded(op) == AllFailedUpTo(op, Len(log[op]))
ExpectedError(out) ==
    IF out.kind = "reject"
    THEN [name |-> "TypeError", message |-> <<"fetch", 0, "Failed to fetch">>]
    ELSE [name |-> "Error", message |-> <<"HTTP", out.status, out.statusText>>]
Threw(op) == h[op].fetchErr.name # ""
Failed(op) == h[op].error.name # ""

\* C1: fetchWithRetry, for every k in {0,1,2}: when the first k attempts
\* fail and attempt k+1 succeeds, exactly k+1 attempts are issued and the
\* call returns the response of attempt k+1, a success response.
C1_FirstSuccessReturned ==
    \A op \in Ops :
      /\ \A k \in 0..2 :
           (Len(log[op]) >= k + 1 /\ AllFailedUpTo(op, k) /\ log[op][k + 1].ok)
             => /\ Issued(op) = k + 1
                /\ h[op].returned = << log[op][k + 1] >>
                /\ ~Threw(op)
      /\ h[op].returned # << >> =>
           /\ h[op].returned[1].ok
           /\ h[op].returned[1] = log[op][Len(log[op])]

C1_Witness ==
    \E op \in Ops :
      /\ Len(log[op]) = 3
      /\ AllFailedUpTo(op, 2)
      /\ h[op].returned = << log[op][3] >>
      /\ h[op].returned[1].body = <<RecA, RecB>>

\* C2: fetchWithRetry against a network that always fails issues exactly 3
\* attempts and then throws the error of the third; a non-ok response is a
\* failed attempt with error 'HTTP <status>: <reason>' and is never returned.
C2_ThreeAttemptsLastError ==
    \A op \in Ops :
      /\ Issued(op) <= 3
      /\ Threw(op) =>
           /\ Len(log[op]) = 3
           /\ NoneSucceeded(op)
           /\ h[op].fetchErr = ExpectedError(log[op][3])
           /\ h[op].returned = << >>
      /\ (Len(log[op]) = 3 /\ NoneSucceeded(op)) => Threw(op)
      /\ (Len(log[op]) < 3 /\ Len(log[op]) > 0 /\ NoneSucceeded(op))
           => (pc[op] \in {"backoff", "fetching"} /\ ~Threw(op))
      /\ h[op].returned # << >> => h[op].returned[1].ok

C2_Witness ==
    \E op \in Ops :
      /\ Threw(op)
      /\ log[op][1].kind = "reject"
      /\ log[op][2].status = 404
      /\ h[op].fetchErr.message = <<"HTTP", 503, "Service Unavailable">>

\* C3: attempt i+1 (0-indexed) is issued only once 2^i seconds have passed
\* since attempt i failed, and after the last failed attempt no delay is
\* awaited: the error is thrown in the same turn.
C3_BackoffBeforeRetry ==
    \A op \in Ops :
      /\ attempt[op] >= 1 => waited[op] >= (2 ^ (attempt[op] - 1)) * 1000
      /\ attempt[op] = Issued(op) - 1 \/ Issued(op) = 0
      /\ pc[op] = "backoff" => Len(log[op]) < 3
      /\ (Len(log[op]) = 3 /\ NoneSucceeded(op)) => (Done(op) /\ Threw(op))

C3_Witness ==
    \E op \in Ops :
      /\ attempt[op] = 2
      /\ waited[op] = 2000
      /\ Threw(op)

\* C4: warm start: whenever the store holds a dataset entry when loadData
\* begins, it installs exactly the stored records and issues no network
\* attempt, whatever the network would have answered.
C4_WarmStartNoNetwork ==
    \A op \in Ops :
      h[op].startStore # << >> =>
        /\ Done(op)
        /\ Issued(op) = 0
        /\ h[op].used = "cache"
        /\ h[op].value = h[op].startStore[1]
        /\ ~Failed(op)

C4_Witness ==
    /\ Done("init")
    /\ h["init"].startStore = << <<RecB>> >>
    /\ h["init"].value = <<RecB>>
    /\ tournaments = <<RecB>>

\* C5 as stated: cold start with the network available: one network fetch,
\* the Collection is the fetched records, and the dataset entry of the
\* store equals the fetched Collection.
C5_ColdStartStorePopulated ==
    \A op \in Ops :
      (Done(op) /\ h[op].startStore = << >> /\ Len(log[op]) >= 1 /\ log[op][1].ok)
        => /\ Issued(op) = 1
           /\ h[op].value = log[op][1].body
           /\ h[op].endStore = << log[op][1].body >>

\* C5 amended: the dataset entry equals the fetched Collection unless the
\* store rejected the write of the entry.
C5_ColdStartStorePopulatedUnlessRejected ==
    \A op \in Ops :
      (Done(op) /\ h[op].startStore = << >> /\ Len(log[op]) >= 1 /\ log[op][1].ok)
        => /\ Issued(op) = 1
           /\ h[op].used = "network"
           /\ h[op].value = log[op][1].body
           /\ ~Failed(op)
           /\ h[op].wrote \in {"ok", "rejected"}
           /\ h[op].wrote = "ok" => h[op].endStore = << log[op][1].body >>

C5_Witness ==
    /\ Done("init")
    /\ h["init"].startStore = << >>
    /\ Len(log["init"]) = 1
    /\ h["init"].wrote = "ok"
    /\ h["init"].endStore = << <<RecA, RecB>> >>
    /\ h["init"].value = <<RecA, RecB>>

\* C6: cold start with the network unavailable and the store empty (no
\* attempt succeeds, nothing writes the dataset entry meanwhile): loadData
\* makes all 3 attempts, then throws 'No data available'; the store stays empty.
C6_ColdStartNoNetworkFails ==
    \A op \in Ops :
      (Done(op) /\ h[op].startStore = << >> /\ NoneSucceeded(op)
         /\ ~h[op].otherWrote)
        => /\ Len(log[op]) = 3
           /\ Threw(op)
           /\ h[op].error.message[1] = "No data available"
           /\ h[op].used = "error"
           /\ h[op].endStore = << >>

C6_Witness ==
    /\ Done("init")
    /\ h["init"].startStore = << >>
    /\ Len(log["init"]) = 3
    /\ h["init"].error.message[1] = "No data available"
    /\ localStorage[KEY] = << >>
    /\ tournaments = << >>

\* C7 as stated: every refreshData() issues at least one network attempt
\* before it uses the dataset held in the store.
C7_RefreshPrefersNetwork ==
    \A op \in RefreshOps :
      (Done(op) /\ h[op].used \in {"cache", "fallback"}) => Len(log[op]) >= 1

\* C8 as stated: warm start, network unavailable: a refreshData() after
\* loadData() installs the same stored records and ends with status
\* 'offline'.
C8_RefreshAfterWarmStartDegraded ==
    \A op \in RefreshOps :
      (Done(op) /\ Done("init") /\ h["init"].used = "cache"
         /\ h[op].startStore # << >> /\ NoneSucceeded(op))
        => /\ h[op].value = h[op].startStore[1]
           /\ h[op].endStatus = "offline"

\* C9 as stated: an operation that completes with the Collection taken from
\* the store because its fetch failed has status 'offline' when it completes.
C9_FallbackObservable ==
    \A op \in Ops :
      (Done(op) /\ h[op].used = "fallback") => h[op].endStatus = "offline"

C11_LoadKeepsFetched ==
    \A op \in Ops :
      h[op].writeRejected =>
        /\ Done(op)
        /\ ~Failed(op)
        /\ h[op].used = "network"
        /\ h[op].returned # << >>
        /\ h[op].value = h[op].returned[1].body
C11_AppendKeepsRecord ==
    nAppend' = nAppend + 1 =>
      /\ \E rec \in FormRecords : tournaments' = Append(tournaments, rec)
      /\ nSuccess' = nSuccess + 1
C11_RejectedWriteTolerated ==
    [](C11_LoadKeepsFetched /\ nSuccess = nAppend) /\ [][C11_AppendKeepsRecord]_vars

\* A load whose write was rejected, followed by an append whose write was
\* rejected: the store is still empty and the new record is in memory.
C11_Witness ==
    /\ h["init"].writeRejected
    /\ h["init"].value = <<RecA, RecB>>
    /\ nAppend = 1
    /\ nSuccess = 1
    /\ localStorage[KEY] = << >>
    /\ tournaments = <<RecA, RecB, RecC>>

\* ------------------------------------------------------------ routing
\* One fetch event, for every request of RouteRequests.
InitRoute ==
    /\ LoaderInit
    /\ localStorage[KEY] = None
    /\ navOnline
    /\ rt = RT0
    /\ \E r \in RouteRequests : ev = [EV0 EXCEPT !.stage = "event", !.request = r]
    /\ SWIdle

Dispatch ==
    /\ ev.stage = "event"
    /\ ev' = [ev EXCEPT !.stage = "dispatched", !.handler = FetchListener(ev.request)]
    /\ UNCHANGED << loaderVars, rt, swVars >>

NextRoute == Dispatch

SpecRoute == InitRoute /\ [][NextRoute]_vars

\* ------------------------------------------- the service worker's handlers
\* install, as far as the handlers can tell: cache.addAll stores every
\* file of STATIC_FILES or none, and the catch block of the install
\* listener lets the worker go on to activate in both cases.
InstallSettles(ok) ==
    /\ worker = "parsed"
    /\ worker' = "installed"
    /\ caches' = IF ok
                 THEN [caches EXCEPT ![STATIC_CACHE] =
                         [u \in SWUrls |-> IF u \in STATIC_FILES
                                           THEN Some(NetResponse(u, 0)) ELSE None]]
                 ELSE caches
    /\ UNCHANGED << sw, puts, nEvents, lastOk, oldCaches >>
    /\ UNCHANGED << loaderVars, rt, ev, bg >>

\* activate: caches.keys(), and caches.delete of every cache whose name is
\* none of the three current ones; then the worker controls the pages.
\* caches.delete of a cache that exists resolves.
Activate ==
    /\ worker = "installed"
    /\ worker' = "activated"
    /\ caches' = [cn \in CacheNames |->
                    IF Stale(cn) THEN [u \in SWUrls |-> None] ELSE caches[cn]]
    /\ oldCaches' = { cn \in oldCaches : ~Stale(cn) }
    /\ UNCHANGED << sw, puts, nEvents, lastOk >>
    /\ UNCHANGED << loaderVars, rt, ev, bg >>

\* The handler of slot s resolves with response r.
Resolve(s, r, src) ==
    sw' = [sw EXCEPT ![s].pc = "done", ![s].result = Some(r), ![s].source = src]

\* return createOfflineResponse(request), in a catch block.
Offline(s) ==
    LET r == createOfflineResponse(sw[s].request) IN
    IF r = None
    THEN sw' = [sw EXCEPT ![s].pc = "done", ![s].rejected = TRUE]
    ELSE Resolve(s, r[1], "offline")

\* The fetch listener, up to the first await of the handler it calls.
FetchEvent(s, request) ==
    /\ worker = "activated"
    /\ nEvents < MaxEvents
    /\ sw[s].pc \in {"idle", "done"}
    /\ \A t \in Slots : t < s => sw[t].pc \notin {"idle", "done"}
    /\ nEvents' = nEvents + 1
    /\ LET hd == FetchListener(request)
           e == [SW0 EXCEPT !.request = request, !.handler = hd]
       IN sw' = [sw EXCEPT ![s] =
                   IF hd = "none"
                   THEN [e EXCEPT !.pc = "done", !.source = "browser"]
                   ELSE IF hd = "handleStaticRequest"
                   THEN [e EXCEPT !.pc = "match"]
                   ELSE [e EXCEPT !.pc = "fetch", !.fetched = 1]]
    /\ UNCHANGED << worker, caches, puts, lastOk, oldCaches >>
    /\ UNCHANGED << loaderVars, rt, ev, bg >>

\* await fetch(request) settles.
FetchResolves(s, out) ==
    /\ sw[s].pc = "fetch"
    /\ LET hd == sw[s].handler
           seen == [sw EXCEPT ![s].net = Append(@, out)]
       IN
       IF out # None /\ ResponseOk(out[1])
       THEN sw' = [seen EXCEPT ![s].pc = "open"]
       ELSE IF out # None /\ ~ThrowsOnNotOk(hd)
       THEN sw' = [seen EXCEPT ![s].pc = "done", ![s].result = out,
                               ![s].source = "network"]
       ELSE IF hd = "handleDataRequest" /\ RetryAfterFailure(sw[s].fetched)
       THEN sw' = [seen EXCEPT ![s].fetched = @ + 1]
       ELSE IF hd = "handleStaticRequest"
       THEN LET r == createOfflineResponse(sw[s].request) IN
            sw' = IF r = None
                  THEN [seen EXCEPT ![s].pc = "done", ![s].rejected = TRUE]
                  ELSE [seen EXCEPT ![s].pc = "done", ![s].result = r,
                                    ![s].source = "offline"]
       ELSE sw' = [seen EXCEPT ![s].pc = "match"]
    /\ lastOk' = IF out # None /\ out[1].ok
                 THEN [lastOk EXCEPT ![CacheOf(sw[s].handler)][sw[s].request.url] = out]
                 ELSE lastOk
    /\ UNCHANGED << worker, caches, puts, nEvents, oldCaches >>
    /\ UNCHANGED << loaderVars, rt, ev, bg >>

\* await caches.open(...) settles, after a response that is ok.  When it
\* resolves, cache.put is called and not awaited, and the handler returns
\* the network response; when it rejects, the catch block runs.
OpenResolves(s, ok) ==
    /\ sw[s].pc = "open"
    /\ LET hd == sw[s].handler
           nr == sw[s].net[Len(sw[s].net)][1]
       IN
       IF ok
       THEN /\ puts' = puts \cup { [cache |-> CacheOf(hd), url |-> sw[s].request.url,
                                    response |-> nr] }
            /\ sw' = [sw EXCEPT ![s].pc = "done", ![s].result = Some(nr),
                                ![s].source = "network", ![s].putsIssued = @ + 1]
       ELSE /\ puts' = puts
            /\ IF hd = "handleStaticRequest"
               THEN LET r == createOfflineResponse(sw[s].request) IN
                    sw' = IF r = None
                          THEN [sw EXCEPT ![s].pc = "done", ![s].rejected = TRUE,
                                          ![s].openFailed = TRUE]
                          ELSE [sw EXCEPT ![s].pc = "done", ![s].result = r,
                                          ![s].source = "offline",
                                          ![s].openFailed = TRUE]
               ELSE sw' = [sw EXCEPT ![s].pc = "match", ![s].openFailed = TRUE]
    /\ UNCHANGED << worker, caches, nEvents, lastOk, oldCaches >>
    /\ UNCHANGED << loaderVars, rt, ev, bg >>

\* await caches.match(request) settles: before the network in
\* handleStaticRequest, in the catch block of the other handlers.
MatchResolves(s) ==
    /\ sw[s].pc = "match"
    /\ LET hd == sw[s].handler
           cached == CachesMatch(caches, sw[s].request.url)
       IN
       IF cached # None
       THEN sw' = [sw EXCEPT ![s].pc = "done", ![s].result = cached,
                             ![s].source = "cache", ![s].matched = TRUE]
       ELSE IF hd = "handleStaticRequest"
       THEN sw' = [sw EXCEPT ![s].pc = "fetch", ![s].fetched = @ + 1]
       ELSE IF hd = "handleNavigationRequest"
       THEN sw' = [sw EXCEPT ![s].pc = "matchIndex"]
       ELSE Offline(s)
    /\ UNCHANGED << worker, caches, puts, nEvents, lastOk, oldCaches >>
    /\ UNCHANGED << loaderVars, rt, ev, bg >>

\* await caches.match('/index.html') settles, in handleNavigationRequest.
MatchIndexResolves(s) ==
    /\ sw[s].pc = "matchIndex"
    /\ LET indexResponse == CachesMatch(caches, URL_Index) IN
       IF indexResponse # None
       THEN Resolve(s, indexResponse[1], "shell")
       ELSE Offline(s)
    /\ UNCHANGED << worker, caches, puts, nEvents, lastOk, oldCaches >>
    /\ UNCHANGED << loaderVars, rt, ev, bg >>

\* A cache.put that nobody awaits settles: the entry is written, or the
\* put rejects (quota) and the rejection is lost.
PutSettles(p, ok) ==
    /\ p \in puts
    /\ puts' = puts \ {p}
    /\ caches' = IF ok THEN [caches EXCEPT ![p.cache][p.url] = Some(p.response)]
                 ELSE caches
    /\ UNCHANGED << worker, sw, nEvents, lastOk, oldCaches >>
    /\ UNCHANGED << loaderVars, rt, ev, bg >>

\* 'sync' with tag 'background-sync-data', or 'periodicsync' with tag
\* 'data-sync': syncData() up to its await fetch('/data/championships.json').
SyncEvent ==
    /\ worker = "activated"
    /\ nEvents < MaxEvents
    /\ bg.pc \in {"idle", "done"}
    /\ nEvents' = nEvents + 1
    /\ bg' = [BG0 EXCEPT !.pc = "syncFetch", !.task = "syncData"]
    /\ UNCHANGED << worker, caches, sw, puts, lastOk, oldCaches >>
    /\ UNCHANGED << loaderVars, rt, ev >>

\* syncData: await fetch settles.  A response that is not ok ends the
\* call, a rejection ends it in the catch block.
SyncFetchResolves(out) ==
    /\ bg.pc = "syncFetch"
    /\ bg' = IF out # None /\ ResponseOk(out[1])
             THEN [bg EXCEPT !.pc = "syncOpen", !.response = out]
             ELSE [bg EXCEPT !.pc = "done"]
    /\ lastOk' = IF out # None /\ out[1].ok
                 THEN [lastOk EXCEPT ![DATA_CACHE][URL_DataJson] = out]
                 ELSE lastOk
    /\ UNCHANGED << worker, caches, sw, puts, nEvents, oldCaches >>
    /\ UNCHANGED << loaderVars, rt, ev >>

\* syncData: await caches.open(DATA_CACHE) settles.
SyncOpenResolves(ok) ==
    /\ bg.pc = "syncOpen"
    /\ bg' = [bg EXCEPT !.pc = IF ok THEN "syncPut" ELSE "done"]
    /\ UNCHANGED << worker, caches, sw, puts, nEvents, lastOk, oldCaches >>
    /\ UNCHANGED << loaderVars, rt, ev >>

\* syncData: await cache.put settles; the clients are told afterwards.
SyncPutResolves(ok) ==
    /\ bg.pc = "syncPut"
    /\ bg' = [bg EXCEPT !.pc = "done", !.wrote = ok]
    /\ caches' = IF ok THEN [caches EXCEPT ![DATA_CACHE][URL_DataJson] = bg.response]
                 ELSE caches
    /\ UNCHANGED << worker, sw, puts, nEvents, lastOk, oldCaches >>
    /\ UNCHANGED << loaderVars, rt, ev >>

\* 'message' of type 'CACHE_UPDATE': updateCache() up to its await
\* caches.open(STATIC_CACHE).
MessageEvent ==
    /\ worker = "activated"
    /\ nEvents < MaxEvents
    /\ bg.pc \in {"idle", "done"}
    /\ nEvents' = nEvents + 1
    /\ bg' = [BG0 EXCEPT !.pc = "updateOpen", !.task = "updateCache"]
    /\ UNCHANGED << worker, caches, sw, puts, lastOk, oldCaches >>
    /\ UNCHANGED << loaderVars, rt, ev >>

\* updateCache: await caches.open(STATIC_CACHE) settles.
UpdateOpenResolves(ok) ==
    /\ bg.pc = "updateOpen"
    /\ bg' = [bg EXCEPT !.pc = IF ok THEN "updateAddAll" ELSE "done"]
    /\ UNCHANGED << worker, caches, sw, puts, nEvents, lastOk, oldCaches >>
    /\ UNCHANGED << loaderVars, rt, ev >>

\* updateCache: await cache.addAll(requests) settles.  addAll stores the
\* files of STATIC_FILES, as the site serves them now, or none of them.
UpdateAddAllResolves(ok) ==
    /\ bg.pc = "updateAddAll"
    /\ bg' = [bg EXCEPT !.pc = "done", !.wrote = ok]
    /\ caches' = IF ok
                 THEN [caches EXCEPT ![STATIC_CACHE] =
                         [u \in SWUrls |-> IF u \in STATIC_FILES
                                           THEN Some(NetResponse(u, 1))
                                           ELSE caches[STATIC_CACHE][u]]]
                 ELSE caches
    /\ UNCHANGED << worker, sw, puts, nEvents, lastOk, oldCaches >>
    /\ UNCHANGED << loaderVars, rt, ev >>

InitSW ==
    /\ LoaderInit
    /\ localStorage[KEY] = None
    /\ navOnline
    /\ rt = RT0
    /\ ev = EV0
    /\ SWIdle

NextSW ==
    \/ \E ok \in BOOLEAN : InstallSettles(ok)
    \/ Activate
    \/ \E s \in Slots, r \in SWRequests : FetchEvent(s, r)
    \/ \E s \in Slots : \E out \in SWOutcomes(sw[s].request.url) : FetchResolves(s, out)
    \/ \E s \in Slots, ok \in BOOLEAN : OpenResolves(s, ok)
    \/ \E s \in Slots : MatchResolves(s)
    \/ \E s \in Slots : MatchIndexResolves(s)
    \/ \E p \in puts, ok \in BOOLEAN : PutSettles(p, ok)

SpecSW == InitSW /\ [][NextSW]_vars

\* The worker with its background tasks: fetch events of one request for
\* each strategy, sync events and CACHE_UPDATE messages.
SyncRequests ==
    { Request("GET", URL_DataJson, "cors", Some(ACCEPT_Any)),
      Request("GET", URL_AppJs, "no-cors", Some(ACCEPT_Any)),
      Request("GET", URL_Index, "navigate", Some(ACCEPT_Html)),
      Request("GET", URL_Api, "cors", Some(ACCEPT_Any)) }

NextSync ==
    \/ \E ok \in BOOLEAN : InstallSettles(ok)
    \/ Activate
    \/ \E s \in Slots, r \in SyncRequests : FetchEvent(s, r)
    \/ \E s \in Slots : \E out \in SWOutcomes(sw[s].request.url) : FetchResolves(s, out)
    \/ \E s \in Slots, ok \in BOOLEAN : OpenResolves(s, ok)
    \/ \E s \in Slots : MatchResolves(s)
    \/ \E s \in Slots : MatchIndexResolves(s)
    \/ \E p \in puts, ok \in BOOLEAN : PutSettles(p, ok)
    \/ SyncEvent
    \/ \E out \in SWOutcomes(URL_DataJson) : SyncFetchResolves(out)
    \/ \E ok \in BOOLEAN : SyncOpenResolves(ok)
    \/ \E ok \in BOOLEAN : SyncPutResolves(ok)
    \/ MessageEvent
    \/ \E ok \in BOOLEAN : UpdateOpenResolves(ok)
    \/ \E ok \in BOOLEAN : UpdateAddAllResolves(ok)

SpecSync == InitSW /\ [][NextSync]_vars

\* ------------------------------------- the loader behind the service worker
\* The request of fetchWithRetry, as the fetch event carries it: a GET of
\* './data/championships.json' with no Accept header of its own, for which
\* fetch() sends */* (LoaderRequest_json: had the loader asked for JSON).
LoaderRequest_json == Request("GET", URL_DataJson, "cors", Some(ACCEPT_Json))
LoaderRequest == Request("GET", URL_DataJson, "cors", Some(ACCEPT_Any))

\* What the page's fetch() resolves with when the handler resolves with r:
\* the status line, and the records response.json() yields.
PageResponse(r) ==
    [kind |-> "response", ok |-> r.ok, status |-> r.status,
     statusText |-> r.statusText, body |-> r.body.records]

\* What handleDataRequest can resolve with: a success response of the
\* network, a cached copy, or the response of createOfflineResponse.
HandlerResults(request) ==
    { Some(NetResponse(request.url, v)) : v \in {0, 1, 2} }
        \cup { createOfflineResponse(request) }
InterceptedOutcomes ==
    { IF r = None THEN Rejection ELSE PageResponse(r[1]) :
        r \in HandlerResults(LoaderRequest) }

\* The constructor's load, every fetch answered by the worker, and what the
\* page does once it is set up, short of another load.
NextIntercepted ==
    \/ InitStart
    \/ \E out \in InterceptedOutcomes : FetchSettles("init", out)
    \/ BackoffElapsed("init")
    \/ \E quota \in QuotaOutcomes : BodyParsed("init", quota)
    \/ Tick
    \/ OfflineEvent
    \/ \E rec \in FormRecords, quota \in QuotaOutcomes : FormSubmit(rec, quota)

SpecIntercepted == Init /\ [][NextIntercepted]_vars

\* C13 as stated: for every Collection c, a successful setCachedData(c)
\* followed by getCachedData() returns a Collection equal to c.
C13_RoundTrip ==
    (rt.stage = "read" /\ rt.quota # "first") => rt.out = << rt.c >>

\* C14 as stated: a form submission appends exactly one record, and both
\* the Collection and the dataset entry re-read from the store then hold the
\* previous N records in order followed by the new record.
C14_AppendStep ==
    nAppend' = nAppend + 1 =>
      \E rec \in FormRecords :
        /\ tournaments' = Append(tournaments, rec)
        /\ localStorage'[KEY] # << >>
        /\ localStorage'[KEY][1] = Append(tournaments, rec)
C14_LocalAppendPersisted == [][C14_AppendStep]_vars

\* The four strategies, named by the class of request each one serves.
Handlers == { "handleDataRequest", "handleStaticRequest",
              "handleNavigationRequest", "handleGenericRequest" }

C16_FirstMatchWins ==
    (ev.stage = "dispatched" /\ ev.request.method = "GET") =>
      /\ ev.handler = "handleDataRequest" <=> isDataRequest(ev.request)
      /\ ev.handler = "handleStaticRequest" <=>
             (~isDataRequest(ev.request) /\ isStaticResource(ev.request))
      /\ ev.handler = "handleNavigationRequest" <=>
             ( /\ ~isDataRequest(ev.request)
               /\ ~isStaticResource(ev.request)
               /\ isNavigationRequest(ev.request) )
      /\ ev.handler = "handleGenericRequest" <=>
             ( /\ ~isDataRequest(ev.request)
               /\ ~isStaticResource(ev.request)
               /\ ~isNavigationRequest(ev.request) )
      /\ ev.request.url = URL_DataJson => ev.handler = "handleDataRequest"
C16_Witness ==
    /\ ev.stage = "dispatched"
    /\ ev.request.method = "GET"
    /\ ev.request.url = URL_DataJson
    /\ isStaticResource(ev.request)
    /\ ev.handler = "handleDataRequest"

\* Helpers of the service worker's properties.
Returns(s) == sw[s].pc # "done" /\ sw'[s].pc = "done"
LastNet(e) == e.net[Len(e.net)]
NetOk(e) == e.net # << >> /\ LastNet(e) # << >> /\ LastNet(e)[1].ok
NetFailed(e) == e.net # << >> /\ (LastNet(e) = << >> \/ ~LastNet(e)[1].ok)
Entries(url) == { caches[cn][url] : cn \in CacheNames } \ { << >> }

\* C12 as stated: in every handler, when the network answered with a
\* success response, that response is what the handler returns, whether or
\* not opening or writing the cache failed afterwards.
C12_CacheFailureNeverEscapes ==
    \A s \in Slots :
      (sw[s].pc = "done" /\ NetOk(sw[s])) =>
        /\ ~sw[s].rejected
        /\ sw[s].result = LastNet(sw[s])

\* C17 as stated: when handleDataRequest returns a success response of the
\* network, the DATA_CACHE entry of the request equals that response.
C17_ReturnStep ==
    \A s \in Slots :
      ( /\ Returns(s)
        /\ sw'[s].handler = "handleDataRequest"
        /\ sw'[s].source = "network" ) =>
          caches'[DATA_CACHE][sw'[s].request.url] = sw'[s].result
C17_WriteIssuedStep ==
    /\ \A s \in Slots :
         ( /\ Returns(s)
           /\ sw'[s].handler = "handleDataRequest"
           /\ sw'[s].source = "network" ) =>
             /\ sw'[s].putsIssued = 1
             /\ sw'[s].result # << >>
             /\ [cache |-> "golf-data-v1.2", url |-> sw'[s].request.url,
                 response |-> sw'[s].result[1]] \in puts'
    /\ \A p \in puts :
         (puts' = puts \ {p} /\ caches' # caches) =>
           /\ caches'[p.cache][p.url] = << p.response >>
           /\ \A cn \in CacheNames, u \in SWUrls :
                (cn # p.cache \/ u # p.url) => caches'[cn][u] = caches[cn][u]
C18_FallbackStep ==
    \A s \in Slots :
      ( /\ Returns(s)
        /\ sw'[s].handler = "handleDataRequest"
        /\ NetFailed(sw'[s])
        /\ Entries(sw'[s].request.url) # {} ) =>
          /\ sw'[s].result \in Entries(sw'[s].request.url)
          /\ ~sw'[s].rejected
          /\ sw'[s].putsIssued = 0
          /\ puts' = puts
          /\ caches' = caches
C18_CachedEntryReturnedNoWrite == [][C18_FallbackStep]_vars
C18_Witness ==
    \E s \in Slots :
      /\ sw[s].pc = "done"
      /\ sw[s].handler = "handleDataRequest"
      /\ sw[s].net = << << NetError >> >>
      /\ sw[s].source = "cache"
      /\ sw[s].result = caches["golf-data-v1.2"][sw[s].request.url]
      /\ sw[s].putsIssued = 0

\* C19 as stated: a response that handleDataRequest serves from the cache
\* after a network failure is marked as degraded: it differs from every
\* response the network can give to the same request.
C19_CacheServedIsMarked ==
    \A s \in Slots :
      ( /\ sw[s].pc = "done"
        /\ sw[s].handler = "handleDataRequest"
        /\ sw[s].source = "cache" ) =>
          sw[s].result \notin SWOutcomes(sw[s].request.url)

C21_HitStep ==
    \A s \in Slots :
      ( /\ sw[s].handler = "handleStaticRequest"
        /\ sw[s].pc = "match"
        /\ sw'[s] # sw[s]
        /\ Entries(sw[s].request.url) # {} ) =>
          /\ sw'[s].pc = "done"
          /\ sw'[s].result \in Entries(sw[s].request.url)
          /\ ~sw'[s].rejected
          /\ sw'[s].fetched = 0
          /\ sw'[s].net = << >>
C21_CacheHitNoNetwork ==
    /\ [][C21_HitStep]_vars
    /\ [](\A s \in Slots :
            (sw[s].handler = "handleStaticRequest" /\ sw[s].source = "cache") =>
               sw[s].fetched = 0)
C21_Witness ==
    \E s \in Slots :
      /\ sw[s].pc = "done"
      /\ sw[s].request.url = "/app.js"
      /\ sw[s].handler = "handleStaticRequest"
      /\ sw[s].source = "cache"
      /\ sw[s].result # << >>
      /\ sw[s].result = caches["golf-static-v1.2"]["/app.js"]
      /\ sw[s].fetched = 0

\* Helpers: the Offline Responses, and a handler that never got a response.
OfflineResponses ==
    { [ok |-> TRUE, status |-> 200, statusText |-> "", contentType |-> "text/html",
       body |-> [shape |-> "html", records |-> << >>,
                 text |-> "offline page, Retry button"]],
      [ok |-> TRUE, status |-> 200, statusText |-> "", contentType |-> "application/json",
       body |-> [shape |-> "object", records |-> << >>, text |-> "Offline"]],
      [ok |-> FALSE, status |-> 503, statusText |-> "Service Unavailable",
       contentType |-> "text/plain",
       body |-> [shape |-> "text", records |-> << >>, text |-> "Offline"]] }
IsOffline(e) ==
    /\ ~e.rejected
    /\ e.result # << >>
    /\ e.result[1] \in OfflineResponses
    /\ e.source = "offline"

\* C22 as stated: handleStaticRequest after a cache miss: a success response
\* of the network is returned and written to STATIC_CACHE; after a rejected
\* fetch or a response that is not ok the result is an Offline Response and
\* no write is issued.
C22_StaticMiss ==
    \A s \in Slots :
      ( /\ sw[s].pc = "done"
        /\ sw[s].handler = "handleStaticRequest"
        /\ sw[s].fetched = 1 ) =>
          /\ NetOk(sw[s]) =>
               /\ sw[s].result = LastNet(sw[s])
               /\ sw[s].putsIssued = 1
          /\ NetFailed(sw[s]) =>
               /\ IsOffline(sw[s])
               /\ sw[s].putsIssued = 0

\* C23 as stated: handleNavigationRequest asks the network first; after a
\* failure it returns the cached copy of the request if there is one, else
\* the cached '/index.html' if there is one, else an Offline Response; it
\* turns to a later source only when every earlier one failed or missed.
C23_Step ==
    \A s \in Slots :
      (sw[s].handler = "handleNavigationRequest" /\ sw'[s] # sw[s]) =>
        /\ sw[s].pc = "fetch" =>
             /\ sw[s].fetched = 1
             /\ NetFailed(sw'[s]) => sw'[s].pc = "match"
             /\ NetOk(sw'[s]) => sw'[s].pc = "open"
        /\ sw[s].pc = "open" =>
             /\ sw'[s].pc = "done"
             /\ sw'[s].result = LastNet(sw[s])
        /\ sw[s].pc = "match" =>
             IF Entries(sw[s].request.url) # {}
             THEN /\ sw'[s].pc = "done"
                  /\ sw'[s].result \in Entries(sw[s].request.url)
             ELSE sw'[s].pc = "matchIndex"
        /\ sw[s].pc = "matchIndex" =>
             /\ sw'[s].pc = "done"
             /\ IF Entries("/index.html") # {}
                THEN sw'[s].result \in Entries("/index.html")
                ELSE IsOffline(sw'[s])
C23_NavigationFallbackOrder == [][C23_Step]_vars

\* C24 as stated: handleGenericRequest asks the network first; a success
\* response is returned and written to CACHE_NAME; after a rejected fetch
\* or a response that is not ok it returns the cached response of the
\* request if there is one, else an Offline Response.
C24_Step ==
    \A s \in Slots :
      (Returns(s) /\ sw'[s].handler = "handleGenericRequest") =>
        /\ sw'[s].fetched = 1
        /\ NetOk(sw'[s]) =>
             /\ sw'[s].result = LastNet(sw'[s])
             /\ [cache |-> "golf-dashboard-v1.2", url |-> sw'[s].request.url,
                 response |-> LastNet(sw'[s])[1]] \in puts'
        /\ NetFailed(sw'[s]) =>
             IF Entries(sw'[s].request.url) # {}
             THEN sw'[s].result \in Entries(sw'[s].request.url)
             ELSE IsOffline(sw'[s])
C24_GenericNetworkFirst == [][C24_Step]_vars

\* C25 as stated: with the network down (every fetch() of the handler
\* rejects), every handler resolves with a cached entry or an Offline
\* Response and never rejects, whatever the caches hold and whatever the
\* headers of the request are.
C25_NeverRejectsOffline ==
    \A s \in Slots :
      ( /\ sw[s].pc = "done"
        /\ sw[s].handler # "none"
        /\ \A j \in DOMAIN sw[s].net : sw[s].net[j] = << >> ) =>
          /\ ~sw[s].rejected
          /\ sw[s].result # << >>
          /\ sw[s].source \in {"cache", "shell"} \/ IsOffline(sw[s])

\* C26 as stated: the Offline Response to a request that accepts JSON, with
\* the network down and nothing cached, has the shape of a dataset payload,
\* a JSON array of records, and holds no record.
C26_OfflineJsonIsEmptyArray ==
    \A s \in Slots :
      ( /\ sw[s].pc = "done"
        /\ sw[s].source = "offline"
        /\ sw[s].request.accept = << "application/json" >> ) =>
          /\ sw[s].result # << >>
          /\ sw[s].result[1].body.shape = "array"
          /\ sw[s].result[1].body.records = << >>

\* Helpers: the request of e went to createOfflineResponse; its Accept
\* header contains sub.
WentOffline(e) == e.pc = "done" /\ (e.source = "offline" \/ e.rejected)
AcceptHas(e, sub) ==
    e.request.accept # << >> /\ Includes(Chars[e.request.accept[1]], sub)

\* C27 as stated: createOfflineResponse answers a request whose Accept
\* header contains text/html with a 200 HTML page holding a retry action,
\* also when the header contains application/json too; it answers a request
\* that is neither of the two kinds with 503 'Service Unavailable'; two
\* requests with the same Accept header get the same answer.
C27_OfflineTyping ==
    /\ \A s \in Slots :
         WentOffline(sw[s]) =>
           /\ AcceptHas(sw[s], SUB_TextHtml) =>
                /\ sw[s].result # << >>
                /\ sw[s].result[1].status = 200
                /\ sw[s].result[1].contentType = "text/html"
                /\ sw[s].result[1].body.text = "offline page, Retry button"
           /\ (~AcceptHas(sw[s], SUB_TextHtml) /\ ~AcceptHas(sw[s], SUB_AppJson)) =>
                /\ sw[s].result # << >>
                /\ sw[s].result[1].status = 503
                /\ sw[s].result[1].statusText = "Service Unavailable"
    /\ \A s, t \in Slots :
         ( /\ WentOffline(sw[s])
           /\ WentOffline(sw[t])
           /\ sw[s].request.accept = sw[t].request.accept ) =>
             sw[s].result = sw[t].result

\* C28 as stated: STATIC_CACHE never holds a data-class resource and
\* DATA_CACHE never holds a resource of another class.
C28_NamespacesSeparate ==
    \A u \in SWUrls :
      LET data == isDataRequest(Request("GET", u, "cors", << "*/*" >>)) IN
      /\ caches["golf-static-v1.2"][u] # << >> => ~data
      /\ caches["golf-data-v1.2"][u] # << >> => data

\* C29 as stated: when two overlapping requests for the same URL, handled
\* by handleDataRequest or by handleGenericRequest, both got a success
\* response of the network and both have completed, with every write they
\* issued settled, the entry of the URL in the handler's cache is the
\* response the network gave last.
C29_LastWriteWins ==
    \A s, t \in Slots :
      ( /\ s # t
        /\ sw[s].pc = "done" /\ sw[t].pc = "done"
        /\ sw[s].request.url = sw[t].request.url
        /\ sw[s].handler = sw[t].handler
        /\ sw[s].handler \in {"handleDataRequest", "handleGenericRequest"}
        /\ NetOk(sw[s]) /\ NetOk(sw[t])
        /\ sw[s].source = "network" /\ sw[t].source = "network"
        /\ puts = {} ) =>
          LET cn == IF sw[s].handler = "handleDataRequest"
                    THEN "golf-data-v1.2" ELSE "golf-dashboard-v1.2"
          IN caches[cn][sw[s].request.url] = lastOk[cn][sw[s].request.url]

\* C30: when the activate listener has completed, no cache of another name
\* than the three current ones is left, and the three current caches hold
\* what they held before.
C30_ActivateStep ==
    (worker = "installed" /\ worker' = "activated") =>
      /\ oldCaches' = {}
      /\ caches' = caches
C31_ReconnectingOnlyInFlight ==
    /\ connectionStatus \in {"online", "offline", "reconnecting"}
    /\ connectionStatus = "reconnecting" =>
         \E op \in {"refresh", "refresh2"} :
            pc[op] \in {"fetching", "backoff", "parsing"}
C31_Witness ==
    /\ pc["init"] = "done"
    /\ pc["refresh"] = "backoff"
    /\ pc["refresh2"] = "fetching"
    /\ connectionStatus = "reconnecting"
    /\ nRefresh = 2

\* Helpers: a load completes in this step; the records of a Collection
\* that were appended locally (the upstream dataset holds no record of "Cy").
Completes(op) == pc[op] # "done" /\ pc'[op] = "done"
LocalNames(coll) == { coll[i].name : i \in DOMAIN coll } \cap { "Cy" }

\* C32 as stated: a locally appended record that is in the dataset entry of
\* the store is still in that entry and in the Collection when any load or
\* refresh completes afterwards.
C32_Step ==
    \A op \in Ops :
      (Completes(op) /\ localStorage["golf-tournaments"] # << >>) =>
        /\ localStorage'["golf-tournaments"] # << >>
        /\ LocalNames(localStorage["golf-tournaments"][1])
              \subseteq LocalNames(localStorage'["golf-tournaments"][1])
        /\ LocalNames(localStorage["golf-tournaments"][1])
              \subseteq LocalNames(tournaments')
C32_AppendSurvivesLoads == [][C32_Step]_vars

\* C33 as stated: the response handleDataRequest returns from a cache,
\* after its network attempt failed, is the entry of the URL in DATA_CACHE
\* whenever there is one: what the latest completed write of
\* handleDataRequest or syncData stored, and no older copy of another cache.
C33_Step ==
    \A s \in Slots :
      ( /\ Returns(s)
        /\ sw'[s].handler = "handleDataRequest"
        /\ sw'[s].source = "cache"
        /\ caches["golf-data-v1.2"][sw'[s].request.url] # << >> ) =>
          sw'[s].result = caches["golf-data-v1.2"][sw'[s].request.url]
C33_FallbackIsLatestData == [][C33_Step]_vars

\* Helpers: the Offline Responses as the page sees them; every attempt of
\* op so far was answered with one.
OfflineViews ==
    { [kind |-> "response", ok |-> FALSE, status |-> 503,
       statusText |-> "Service Unavailable", body |-> << >>],
      [kind |-> "response", ok |-> TRUE, status |-> 200,
       statusText |-> "", body |-> << >>] }
OnlyOffline(op) ==
    log[op] # << >> /\ \A j \in DOMAIN log[op] : log[op][j] \in OfflineViews

\* C34: when the worker answers the loader's fetch with an Offline
\* Response, loadData treats the attempt as failed: the placeholder is
\* neither installed as the Collection nor written to the store, and after
\* three such answers the load throws 'No data available'.
C34_PlaceholderNotInstalled ==
    OnlyOffline("init") =>
      /\ tournaments = << >>
      /\ localStorage["golf-tournaments"] = << >>
      /\ h["init"].returned = << >>
      /\ h["init"].wrote = "no"
      /\ pc["init"] \in {"fetching", "backoff", "done"}
      /\ pc["init"] = "done" =>
           /\ Len(log["init"]) = 3
           /\ h["init"].used = "error"
           /\ h["init"].error.message[1] = "No data available"
C34_Witness ==
    /\ pc["init"] = "done"
    /\ Len(log["init"]) = 3
    /\ \A j \in 1..3 : log["init"][j].status = 503
    /\ h["init"].error.message[1] = "No data available"
    /\ localStorage["golf-tournaments"] = << >>
    /\ tournaments = << >>

\* Helper: no load, refresh or append is in progress (an append runs to
\* its end in one turn) and the first load has completed.
Idle ==
    /\ pc["init"] = "done"
    /\ \A op \in Ops : pc[op] \in {"idle", "done"}

\* C35 as stated: once the first load has completed, with nothing in
\* progress and no write rejected by the store, the Collection equals the
\* dataset entry of the store; with no entry (the first load failed) the
\* Collection is empty.
C35_CollectionEqualsStore ==
    (Idle /\ ~storeRejected) =>
      IF localStorage["golf-tournaments"] = << >>
      THEN tournaments = << >>
      ELSE tournaments = localStorage["golf-tournaments"][1]

\* C36: a refreshData() whose loadData throws (three failed attempts and
\* no dataset entry in the store) changes neither the Collection nor the
\* store, at any of its steps; it ends with status 'offline', and its
\* promise resolves.
C36_Step ==
    \A op \in {"refresh", "refresh2"} :
      /\ (Len(log'[op]) = Len(log[op]) + 1 /\ ~log'[op][Len(log'[op])].ok
             /\ localStorage["golf-tournaments"] = << >>) =>
           /\ tournaments' = tournaments
           /\ localStorage' = localStorage
      /\ (Completes(op) /\ h'[op].error.message[1] = "No data available") =>
           /\ Len(log'[op]) = 3
           /\ \A j \in 1..3 : ~log'[op][j].ok
           /\ localStorage["golf-tournaments"] = << >>
           /\ tournaments' = tournaments
           /\ localStorage' = localStorage
           /\ connectionStatus' = "offline"
           /\ ~h'[op].rejected
C36_FailedRefreshIsQuiet == [][C36_Step]_vars
C36_Witness ==
    /\ pc["refresh"] = "done"
    /\ h["refresh"].error.message[1] = "No data available"
    /\ connectionStatus = "offline"
    /\ tournaments = <<RecA, RecB>>
    /\ localStorage["golf-tournaments"] = << >>
    /\ navOnline

\* C37 as stated: between an 'offline' event and the next 'online' event
\* the connection status is never 'online', whatever refresh completes
\* meanwhile.
C37_NoOnlineWhileOffline ==
    ~navOnline => connectionStatus # "online"

\* C38: every entry of the three caches, and every response on its way into
\* one (a put not yet settled, the response syncData is about to store),
\* has a success status (200..299).
C38_OnlySuccessStored ==
    /\ \A cn \in {"golf-dashboard-v1.2", "golf-static-v1.2", "golf-data-v1.2"} :
         \A u \in DOMAIN caches[cn] :
           caches[cn][u] # << >> =>
             (caches[cn][u][1].status >= 200 /\ caches[cn][u][1].status <= 299)
    /\ \A p \in puts : p.response.status >= 200 /\ p.response.status <= 299
    /\ bg.response # << >> =>
         (bg.response[1].status >= 200 /\ bg.response[1].status <= 299)
C38_Witness ==
    /\ caches["golf-static-v1.2"]["/app.js"] # << >>
    /\ bg.task = "syncData" /\ bg.wrote
    /\ caches["golf-data-v1.2"]["/data/c.json"] # << >>
    /\ \E s \in Slots :
         /\ sw[s].pc = "done"
         /\ sw[s].handler = "handleGenericRequest"
         /\ sw[s].result # << >>
         /\ sw[s].result[1].status = 503
         /\ sw[s].source = "network"
         /\ caches["golf-dashboard-v1.2"][sw[s].request.url] = << >>

\* C39 as stated: once the worker is installed, every URL of STATIC_FILES,
\* '/index.html' among them, has an entry in the static cache: an install
\* whose pre-caching failed does not complete.
C39_InstalledImpliesPrecached ==
    worker \in {"installed", "activated"} =>
      \A u \in {"/index.html", "/app.js", "/data/c.json"} :
        caches["golf-static-v1.2"][u] # << >>

\* C40: a loadData whose fetch failed, and during which no other
\* operation wrote the dataset entry, throws 'No data available'; the
\* fallback branch of its catch block, which installs the stored dataset
\* and shows 'offline', is taken only when another operation wrote the
\* entry while the load was in flight.
C40_FallbackNeedsOtherWriter ==
    \A op \in Ops :
      pc[op] = "done" =>
        /\ (h[op].fetchErr.name # "" /\ ~h[op].otherWrote) =>
             /\ h[op].used = "error"
             /\ h[op].error.message[1] = "No data available"
             /\ h[op].endStore = << >>
        /\ h[op].used = "fallback" =>
             /\ h[op].otherWrote
             /\ h[op].startStore = << >>
             /\ h[op].fetchErr.name # ""
             /\ h[op].loadStatus = "offline"
             /\ h[op].endStore # << >>
C40_Witness ==
    /\ pc["init"] = "done"
    /\ h["init"].used = "fallback"
    /\ h["init"].otherWrote
    /\ h["init"].loadStatus = "offline"
    /\ pc["refresh"] = "done"
    /\ h["refresh"].used = "network"
    /\ h["refresh"].wrote = "ok"
    /\ nAppend = 0

====
